---- MODULE Spec2Model ----
(***************************************************************************)
(* Model of src/app.py: the Streamlit upload-and-trigger form.  One        *)
(* session is modelled.  A script run that processes a batch is split at   *)
(* the cloud calls (blob.upload_from_filename, pipeline_job.run), where a  *)
(* fault may end the run; every other script run (a widget change, the     *)
(* Clear History click) is one step.                                       *)
(*                                                                         *)
(* Strings are sequences of one-character strings.  File contents are      *)
(* abstract byte strings.  The number input's float value is held exactly  *)
(* as a count of half hours (step=0.5).                                    *)
(***************************************************************************)
EXTENDS Integers, Sequences, FiniteSets, TLC

VARIABLES
    results,               \* st.session_state.results
    staged,                \* bucket contents: object path -> bytes
    jobs,                  \* pipeline jobs submitted so far (cloud side)
    temps,                 \* local temporary files that exist
    tempCount,             \* number of temporary files ever created (names are unique)
    pc,                    \* position of the script: idle/check/upload/submit/append
    uploaded_files,        \* value of the file uploader widget
    training_budget_hours, \* value of the number input, in half hours
    idx,                   \* position of the for loop in uploaded_files
    processed_customers,   \* the set built before the loop
    filename,              \* loop local
    customer_name,         \* loop local
    temp_file,             \* loop local: name of the temporary file
    gcs_uri,               \* loop local
    clearShown,            \* the Clear History button was rendered by the last script run
    lastRun,               \* how the last script run ended: ok / running / fault
    firstBytes,            \* history: object path -> bytes of the upload that created it
    clearMark,             \* history: Len(jobs) at the last Clear History
    clearedNames,          \* history: customer names recorded at the last Clear History
    start                  \* history: Len(results), Len(jobs), tempCount when the
                           \* current trigger request began

vars == <<results, staged, jobs, temps, tempCount, pc, uploaded_files,
          training_budget_hours, idx, processed_customers, filename,
          customer_name, temp_file, gcs_uri, clearShown, lastRun, firstBytes,
          clearMark, clearedNames, start>>

\* ---------------------------------------------------------------- bounds
MaxBatch == 2       \* files in one upload
MaxTemps == 3       \* files a session may process (each may take a temporary file)
MaxNameLen == 4     \* length of the filenames SpecName tries

\* ------------------------------------------------------ program constants
MinHours == 1
MaxHours == 100
StepsPerHour == 2
MilliPerHour == 1000

\* a variable of the script that is not bound
None == <<>>
BUCKET_NAME == <<"b", "k">>

\* ------------------------------------------------------------ os.path.splitext
RECURSIVE RFind(_, _, _)
\* p.rfind(c), 1-based; 0 when c does not occur in p[1..i]
RFind(p, c, i) == IF i = 0 THEN 0 ELSE IF p[i] = c THEN i ELSE RFind(p, c, i - 1)

RECURSIVE SkipLeadingDots(_, _, _)
\* the while loop of genericpath._splitext: scan p from filenameIndex up to
\* dotIndex; the first character that is not a dot makes the split happen
SkipLeadingDots(p, filenameIndex, dotIndex) ==
    IF filenameIndex < dotIndex
    THEN IF p[filenameIndex] # "."
         THEN <<SubSeq(p, 1, dotIndex - 1), SubSeq(p, dotIndex, Len(p))>>
         ELSE SkipLeadingDots(p, filenameIndex + 1, dotIndex)
    ELSE <<p, <<>>>>

\* variant: split at the last dot wherever it stands
SplitextNaive(p) ==
    LET dotIndex == RFind(p, ".", Len(p))
    IN  IF dotIndex > 0
        THEN <<SubSeq(p, 1, dotIndex - 1), SubSeq(p, dotIndex, Len(p))>>
        ELSE <<p, <<>>>>

Splitext(p) ==
    LET sepIndex == RFind(p, "/", Len(p))
        dotIndex == RFind(p, ".", Len(p))
    IN  IF dotIndex > sepIndex
        THEN SkipLeadingDots(p, sepIndex + 1, dotIndex)
        ELSE <<p, <<>>>>

CustomerName(fname) == Splitext(fname)[1]

\* ------------------------------------------------------------ addresses
\* variant: the object named after the customer, extension lost
GcsBlobPathByCustomer(fname) == <<"u", "p", "l", "o", "a", "d", "s", "/">> \o CustomerName(fname)

GcsBlobPath(fname) == <<"u", "p", "l", "o", "a", "d", "s", "/">> \o fname

GcsUri(path) == <<"g", "s", ":", "/", "/">> \o BUCKET_NAME \o <<"/">> \o path

\* ------------------------------------------------------------ budget
\* variant: int(training_budget_hours) * 1000
MilliNodeHoursTruncFirst(halfHours) == (halfHours \div StepsPerHour) * MilliPerHour

\* int(training_budget_hours * 1000) with training_budget_hours = halfHours / 2
MilliNodeHours(halfHours) == (halfHours * MilliPerHour) \div StepsPerHour

\* every value the number input reaches in steps of 0.5 from 1.0 to 100.0
Budgets == (MinHours * StepsPerHour) .. (MaxHours * StepsPerHour)

\* ------------------------------------------------------------ inputs
FileNames == { <<"a", ".", "c", "s", "v">>, <<"b", ".", "c", "s", "v">> }

\* two distinct byte strings
Contents == {"x", "y"}

Files == [name : FileNames, content : Contents]

RECURSIVE SeqsUpTo(_, _)
SeqsUpTo(S, n) ==
    IF n = 0 THEN {<<>>}
    ELSE LET shorter == SeqsUpTo(S, n - 1)
         IN  shorter \cup {Append(s, x) : s \in shorter, x \in S}

Batches == SeqsUpTo(Files, MaxBatch)

\* the filenames SpecName tries: every string of 1..MaxNameLen characters
\* over a letter, the dot and another letter
AllNames == SeqsUpTo({"a", ".", "c"}, MaxNameLen) \ {<<>>}

\* ------------------------------------------------------------ helpers
\* variant: every customer ever submitted, clears ignored
ProcessedCustomersAllJobs == {jobs[i].customer_name : i \in DOMAIN jobs}

\* {res['Customer'] for res in st.session_state.results}
ProcessedCustomers == {results[i].Customer : i \in DOMAIN results}

\* the tail of the script: the history table and the Clear History button
\* are rendered when the history is not empty
Render(res) == res # <<>>

Put(f, k, v) == [x \in DOMAIN f \cup {k} |-> IF x = k THEN v ELSE f[x]]

Locals == <<idx, processed_customers, filename, customer_name, temp_file, gcs_uri>>
Cloud == <<staged, jobs, firstBytes>>
History == <<clearMark, clearedNames, start>>

\* the script's own variables do not outlive a script run
ResetLocals ==
    /\ idx' = 0
    /\ processed_customers' = {}
    /\ filename' = None
    /\ customer_name' = None
    /\ temp_file' = 0
    /\ gcs_uri' = None

\* ------------------------------------------------------------ initial state
\* The session as it begins (lines 19-31), the uploader holding `files` and
\* the number input `hours`.
InitWith(files, hours) ==
    /\ results = <<>>
    /\ staged = <<>>
    /\ jobs = <<>>
    /\ temps = {}
    /\ tempCount = 0
    /\ pc = "idle"
    /\ uploaded_files = files
    /\ training_budget_hours = hours
    /\ idx = 0
    /\ processed_customers = {}
    /\ filename = None
    /\ customer_name = None
    /\ temp_file = 0
    /\ gcs_uri = None
    /\ clearShown = FALSE
    /\ lastRun = "ok"
    /\ firstBytes = <<>>
    /\ clearMark = 0
    /\ clearedNames = {}
    /\ start = [results |-> 0, jobs |-> 0, temps |-> 0]

\* nothing uploaded, value=1.0
Init == InitWith(<<>>, MinHours * StepsPerHour)

\* ------------------------------------------------------------ script runs
\* A widget other than the two buttons changes: the script reruns, the
\* trigger button is not pressed, the tail (lines 93-118) renders.
Rerun ==
    /\ pc = "idle"
    /\ clearShown' = Render(results)
    /\ lastRun' = "ok"
    /\ ResetLocals
    /\ UNCHANGED <<results, temps, tempCount, pc, uploaded_files, training_budget_hours>>
    /\ UNCHANGED <<Cloud, History>>

\* The trigger button is pressed while the uploader holds the files b:
\* lines 31-40.
Trigger(b) ==
    /\ pc = "idle"
    /\ b # <<>>
    /\ tempCount + Len(b) <= MaxTemps
    /\ uploaded_files' = b
    /\ processed_customers' = ProcessedCustomers
    /\ idx' = 1
    /\ pc' = "check"
    /\ lastRun' = "running"
    /\ start' = [results |-> Len(results), jobs |-> Len(jobs), temps |-> tempCount]
    /\ UNCHANGED <<results, temps, tempCount, training_budget_hours,
                   filename, customer_name, temp_file, gcs_uri, clearShown,
                   clearMark, clearedNames>>
    /\ UNCHANGED Cloud

\* the user picks the files, then presses the button
TriggerUpload == \E b \in Batches : Trigger(b)

\* the user presses the button again, the uploader unchanged
TriggerAgain == Trigger(uploaded_files)

\* variant: the temporary file name is taken before the duplicate test
CheckFileTempFirst ==
    /\ pc = "check"
    /\ idx <= Len(uploaded_files)
    /\ filename' = uploaded_files[idx].name
    /\ customer_name' = CustomerName(uploaded_files[idx].name)
    /\ tempCount' = tempCount + 1
    /\ temp_file' = tempCount + 1
    /\ IF customer_name' \in processed_customers
       THEN /\ idx' = idx + 1
            /\ temps' = temps
            /\ UNCHANGED pc
       ELSE /\ temps' = temps \cup {tempCount + 1}
            /\ pc' = "upload"
            /\ UNCHANGED idx
    /\ UNCHANGED <<results, uploaded_files, training_budget_hours, processed_customers,
                   gcs_uri, clearShown, lastRun>>
    /\ UNCHANGED <<Cloud, History>>

\* Head of the loop body for one file, lines 42-53: derive the names, skip a
\* processed customer, otherwise write the temporary file.
CheckFile ==
    /\ pc = "check"
    /\ idx <= Len(uploaded_files)
    /\ filename' = uploaded_files[idx].name
    /\ customer_name' = CustomerName(uploaded_files[idx].name)
    /\ IF customer_name' \in processed_customers
       THEN /\ idx' = idx + 1
            /\ UNCHANGED <<pc, temps, tempCount, temp_file>>
       ELSE /\ tempCount' = tempCount + 1
            /\ temp_file' = tempCount + 1
            /\ temps' = temps \cup {tempCount + 1}
            /\ pc' = "upload"
            /\ UNCHANGED idx
    /\ UNCHANGED <<results, uploaded_files, training_budget_hours, processed_customers,
                   gcs_uri, clearShown, lastRun>>
    /\ UNCHANGED <<Cloud, History>>

\* The loop is over: the script reaches its tail, lines 93-118.
EndLoop ==
    /\ pc = "check"
    /\ idx > Len(uploaded_files)
    /\ pc' = "idle"
    /\ lastRun' = "ok"
    /\ clearShown' = Render(results)
    /\ ResetLocals
    /\ UNCHANGED <<results, temps, tempCount, uploaded_files, training_budget_hours>>
    /\ UNCHANGED <<Cloud, History>>

\* Lines 56-60: the upload succeeds, then the temporary file is removed.
UploadOk ==
    /\ pc = "upload"
    /\ LET path == GcsBlobPath(filename)
           bytes == uploaded_files[idx].content
       IN  /\ staged' = Put(staged, path, bytes)
           /\ firstBytes' = IF path \in DOMAIN staged THEN firstBytes
                            ELSE Put(firstBytes, path, bytes)
           /\ gcs_uri' = GcsUri(path)
    /\ temps' = temps \ {temp_file}
    /\ pc' = "submit"
    /\ UNCHANGED <<results, jobs, tempCount, uploaded_files, training_budget_hours, idx,
                   processed_customers, filename, customer_name, temp_file,
                   clearShown, lastRun>>
    /\ UNCHANGED History

\* A fault of a cloud call is not caught: the script run ends there, and the
\* tail of the script (lines 93-118) is not reached.  The loop's variables
\* are left as the traceback shows them.
Abort ==
    /\ pc' = "idle"
    /\ lastRun' = "fault"
    /\ clearShown' = FALSE
    /\ UNCHANGED <<results, temps, tempCount, uploaded_files, training_budget_hours>>
    /\ UNCHANGED <<Locals, Cloud, History>>

\* variant: the fault is swallowed and the loop goes on
UploadFaultSkip ==
    /\ pc = "upload"
    /\ idx' = idx + 1
    /\ pc' = "check"
    /\ lastRun' = "fault"
    /\ UNCHANGED <<results, temps, tempCount, uploaded_files, training_budget_hours,
                   processed_customers, filename, customer_name, temp_file, gcs_uri,
                   clearShown>>
    /\ UNCHANGED <<Cloud, History>>

\* Line 58 raises.
UploadFault ==
    /\ pc = "upload"
    /\ Abort

\* Lines 63-81: the job is built and submitted.
SubmitOk ==
    /\ pc = "submit"
    /\ jobs' = Append(jobs, [job_id |-> Len(jobs) + 1,
                             gcs_source_uri |-> gcs_uri,
                             customer_name |-> customer_name,
                             training_budget_milli_node_hours |->
                                 MilliNodeHours(training_budget_hours)])
    /\ pc' = "append"
    /\ UNCHANGED <<results, staged, firstBytes, temps, tempCount, uploaded_files,
                   training_budget_hours, clearShown, lastRun>>
    /\ UNCHANGED <<Locals, History>>

\* Line 64 or line 78 raises.
SubmitFault ==
    /\ pc = "submit"
    /\ Abort

\* Lines 84-91: the Trigger Record is appended, the loop goes on.
AppendResult ==
    /\ pc = "append"
    /\ results' = Append(results, [Customer |-> customer_name,
                                   Link |-> jobs[Len(jobs)].job_id])
    /\ idx' = idx + 1
    /\ pc' = "check"
    /\ UNCHANGED <<temps, tempCount, uploaded_files, training_budget_hours,
                   processed_customers, filename, customer_name, temp_file, gcs_uri,
                   clearShown, lastRun>>
    /\ UNCHANGED <<Cloud, History>>

\* variant: the clear also empties the bucket
ClearHistoryPurge ==
    /\ pc = "idle"
    /\ clearShown
    /\ results' = <<>>
    /\ staged' = <<>>
    /\ clearShown' = Render(<<>>)
    /\ lastRun' = "ok"
    /\ clearMark' = Len(jobs)
    /\ clearedNames' = ProcessedCustomers
    /\ ResetLocals
    /\ UNCHANGED <<temps, tempCount, pc, uploaded_files, training_budget_hours, start,
                   jobs, firstBytes>>

\* Lines 113-115: the Clear History button, rendered by the last run, is
\* pressed; the history is emptied and the script reruns.
ClearHistory ==
    /\ pc = "idle"
    /\ clearShown
    /\ results' = <<>>
    /\ clearShown' = Render(<<>>)
    /\ lastRun' = "ok"
    /\ clearMark' = Len(jobs)
    /\ clearedNames' = ProcessedCustomers
    /\ ResetLocals
    /\ UNCHANGED <<temps, tempCount, pc, uploaded_files, training_budget_hours, start>>
    /\ UNCHANGED Cloud

Next ==
    \/ Rerun
    \/ TriggerUpload
    \/ CheckFile
    \/ EndLoop
    \/ UploadOk
    \/ UploadFault
    \/ SubmitOk
    \/ SubmitFault
    \/ AppendResult
    \/ ClearHistory

Spec == Init /\ [][Next]_vars

\* ------------------------------------------------------------ one upload, any name
\* A session whose uploader holds one file, for every filename of AllNames;
\* no cloud call faults.
NextRun ==
    \/ TriggerAgain
    \/ CheckFile
    \/ EndLoop
    \/ UploadOk
    \/ SubmitOk
    \/ AppendResult

InitName ==
    \E f \in AllNames :
        InitWith(<<[name |-> f, content |-> "x"]>>, MinHours * StepsPerHour)

SpecName == InitName /\ [][NextRun]_vars

\* ------------------------------------------------------------ two uploads, any budget
\* A session whose uploader holds two files, for every budget of the form.
InitBudget ==
    \E h \in Budgets :
        InitWith(<<[name |-> <<"a", ".", "c", "s", "v">>, content |-> "x"],
                   [name |-> <<"b", ".", "c", "s", "v">>, content |-> "y"]>>, h)

SpecBudget == InitBudget /\ [][NextRun]_vars

\* ============================================================ properties
JobsSinceClear == (clearMark + 1) .. Len(jobs)

LastDot(p) == LET dots == {i \in 1 .. Len(p) : p[i] = "."}
              IN  IF dots = {} THEN 0 ELSE CHOOSE i \in dots : \A k \in dots : k <= i

\* the filename with its last dot and everything after it dropped
DropLastDot(p) == IF LastDot(p) = 0 THEN p ELSE SubSeq(p, 1, LastDot(p) - 1)

\* the same, except that a last dot with nothing but dots before it is no
\* extension separator
DropLastDotUnlessLeading(p) ==
    IF \A i \in 1 .. (LastDot(p) - 1) : p[i] = "." THEN p ELSE DropLastDot(p)

\* s is the text "uploads/" followed by f
IsUploadsPath(s, f) ==
    /\ Len(s) = 8 + Len(f)
    /\ SubSeq(s, 1, 8) = <<"u", "p", "l", "o", "a", "d", "s", "/">>
    /\ SubSeq(s, 9, Len(s)) = f

\* u is the text "gs://", the bucket, "/" followed by s
IsGsUri(u, s) ==
    /\ Len(u) = 6 + Len(BUCKET_NAME) + Len(s)
    /\ SubSeq(u, 1, 5) = <<"g", "s", ":", "/", "/">>
    /\ SubSeq(u, 6, 5 + Len(BUCKET_NAME)) = BUCKET_NAME
    /\ u[6 + Len(BUCKET_NAME)] = "/"
    /\ SubSeq(u, 7 + Len(BUCKET_NAME), Len(u)) = s

\* the object path a gs:// address names
PathOfUri(u) == SubSeq(u, 7 + Len(BUCKET_NAME), Len(u))

RECURSIVE NonSkipped(_, _, _)
\* the customer names of the first n files of `files` a request with the
\* set `seen` does not skip, in upload order
NonSkipped(files, n, seen) ==
    IF n = 0 THEN <<>>
    ELSE LET c == DropLastDotUnlessLeading(files[n].name)
         IN  IF c \in seen THEN NonSkipped(files, n - 1, seen)
             ELSE Append(NonSkipped(files, n - 1, seen), c)

\* the step is the skip of a file (lines 46-48)
SkipStep ==
    /\ pc = "check"
    /\ idx <= Len(uploaded_files)
    /\ DropLastDotUnlessLeading(uploaded_files[idx].name) \in processed_customers

\* C1: since the last Clear History, at most one pipeline job has been
\* submitted per customer name.
C1_OneJobPerCustomer ==
    \A i \in JobsSinceClear : \A j \in JobsSinceClear :
        jobs[i].customer_name = jobs[j].customer_name => i = j

\* C2: the history holds at most one Trigger Record per customer name.
C2_OneRecordPerCustomer ==
    \A i \in DOMAIN results : \A j \in DOMAIN results :
        results[i].Customer = results[j].Customer => i = j

C4_StagedBytesNeverChange ==
    \A p \in DOMAIN staged : staged[p] = firstBytes[p]

\* C4 as amended: no step deletes a staged object, and the only step that
\* creates or changes the object at a path is the staging of an upload whose
\* filename gives that path, which leaves that upload's bytes there.
C4_StagedOnlyReplaced ==
    [][/\ \A p \in DOMAIN staged : p \in DOMAIN staged'
       /\ \A p \in DOMAIN staged' :
            (p \notin DOMAIN staged \/ staged'[p] # staged[p])
                => /\ pc = "upload"
                   /\ IsUploadsPath(p, uploaded_files[idx].name)
                   /\ staged'[p] = uploaded_files[idx].content]_vars

\* C4 witness: an object was staged again with other bytes.
C4_Witness ==
    \E p \in DOMAIN staged : staged[p] # firstBytes[p]

\* C5: after a fault at file k the request is over; the history gained
\* exactly the records of the files before k that were not skipped, in order;
\* as many jobs were submitted; and no file after k took a temporary file.
C5_FaultEndsRequest ==
    lastRun = "fault" =>
        /\ pc = "idle"
        /\ idx \in 1 .. Len(uploaded_files)
        /\ LET before == NonSkipped(uploaded_files, idx - 1, processed_customers)
           IN  /\ Len(results) = start.results + Len(before)
               /\ \A i \in 1 .. Len(before) :
                      results[start.results + i].Customer = before[i]
               /\ Len(jobs) = start.jobs + Len(before)
               /\ tempCount = start.temps + Len(before) + 1

\* C5 witness: the second file of a batch faulted after the first was recorded.
C5_Witness ==
    /\ lastRun = "fault"
    /\ idx = 2
    /\ Len(results) = start.results + 1

\* C6: when no trigger request is running, no temporary file exists.
C6_NoTempAfterRequest ==
    pc = "idle" => temps = {}

\* C7 as claimed: customer_name is the filename with its last dot and
\* everything after it dropped.
C7_DropLastDot ==
    customer_name # None => customer_name = DropLastDot(filename)

\* C7 as amended: customer_name is the filename with its last dot and
\* everything after it dropped, unless only dots (or nothing) precede that
\* dot, and then it is the whole filename; the job and the record carry it.
C7_DropLastDotUnlessLeading ==
    /\ customer_name # None => customer_name = DropLastDotUnlessLeading(filename)
    /\ \A i \in DOMAIN jobs :
          jobs[i].customer_name = DropLastDotUnlessLeading(uploaded_files[1].name)
    /\ \A i \in DOMAIN results :
          results[i].Customer = DropLastDotUnlessLeading(uploaded_files[1].name)

\* C7 witness: a job was submitted for a filename that begins with a dot.
C7_Witness ==
    /\ filename = <<".", "c">>
    /\ customer_name = <<".", "c">>
    /\ pc = "append"

\* C8: once a file is staged, the object at uploads/<filename> holds its
\* bytes, and the job submitted for it carries gs://<bucket>/uploads/<filename>.
C8_StagedPathAndUri ==
    /\ pc \in {"submit", "append"} =>
          \E p \in DOMAIN staged :
              /\ IsUploadsPath(p, uploaded_files[idx].name)
              /\ staged[p] = uploaded_files[idx].content
              /\ IsGsUri(gcs_uri, p)
    /\ pc = "append" =>
          \E p \in DOMAIN staged :
              /\ IsUploadsPath(p, uploaded_files[idx].name)
              /\ IsGsUri(jobs[Len(jobs)].gcs_source_uri, p)
    /\ \A p \in DOMAIN staged : \E f \in FileNames : IsUploadsPath(p, f)

\* C8 witness: the job for a.csv has just been submitted.
C8_Witness ==
    /\ pc = "append"
    /\ uploaded_files[idx].name = <<"a", ".", "c", "s", "v">>

\* C9: every job of the session carries the budget in hours times 1000,
\* exactly, between 1000 and 100000.
C9_MilliNodeHours ==
    \A i \in DOMAIN jobs :
        /\ 2 * jobs[i].training_budget_milli_node_hours = 1000 * training_budget_hours
        /\ jobs[i].training_budget_milli_node_hours \in 1000 .. 100000

\* C9 witness: 2.5 hours, two files, 2500 in both jobs.
C9_Witness ==
    /\ training_budget_hours = 5
    /\ Len(jobs) = 2
    /\ jobs[1].training_budget_milli_node_hours = 2500
    /\ jobs[2].training_budget_milli_node_hours = 2500

\* C10: every record of the history has a job submitted since the last
\* clear for its customer name and a staged object at that job's address;
\* records never outnumber the jobs since the last clear; the loop moves one
\* file at a time in upload order; a job is only submitted after the staging
\* of its file and a record only appended after the job; and the skip of a
\* file changes neither storage, jobs, history nor temporary files.
C10_StageSubmitAppend ==
    /\ [](/\ \A i \in DOMAIN results :
                /\ results[i].Link \in JobsSinceClear
                /\ jobs[results[i].Link].customer_name = results[i].Customer
                /\ PathOfUri(jobs[results[i].Link].gcs_source_uri) \in DOMAIN staged
          /\ Len(results) <= Len(jobs) - clearMark)
    /\ [][(pc # "idle" /\ idx' # idx /\ pc' # "idle") => idx' = idx + 1]_vars
    /\ [][jobs' # jobs =>
            /\ Len(jobs') = Len(jobs) + 1
            /\ \E p \in DOMAIN staged : /\ IsUploadsPath(p, uploaded_files[idx].name)
                                        /\ staged[p] = uploaded_files[idx].content
            /\ results' = results]_vars
    /\ [][(results' # results /\ results' # <<>>) =>
            /\ Len(results') = Len(results) + 1
            /\ results'[Len(results')].Link = Len(jobs)
            /\ Len(jobs) > start.jobs + (Len(results) - start.results)
            /\ jobs' = jobs]_vars
    /\ [][SkipStep => (/\ UNCHANGED <<staged, jobs, results, temps, tempCount>>
                       /\ idx' = idx + 1)]_vars

\* C10 witness: in one request a file was skipped and the next one recorded.
C10_Witness ==
    /\ pc = "check"
    /\ idx = 3
    /\ Len(results) = start.results + 1
    /\ start.results > 0

====
